---- MODULE Spec2Model ----
(***************************************************************************)
(* A model of the go-getopts command line parser (package getopts):       *)
(* the registry of declared Flags and Options, the delivery operations    *)
(* takeValue / addOptArg, and ArgParse, taken one loop iteration at a     *)
(* time.                                                                   *)
(*                                                                         *)
(* A Go string is modelled as a sequence of one-character strings, a      *)
(* pointer to a Flag or Option as an index into the sequence heap, a Go    *)
(* index k into a string or slice as the TLA+ index k + 1.                 *)
(***************************************************************************)
EXTENDS Integers, Sequences, FiniteSets, TLC

VARIABLES
    heap,           \* the Flag and Option objects behind the pointers, by handle
    Flags,          \* var Flags []Flag   (values, appended at declaration)
    Options,        \* var Options []Option
    paramsByShort,  \* map[byte]parameter
    paramsByLong,   \* map[string]parameter
    OnRestArg,      \* var OnRestArg func(string, bool) bool
    panicked,       \* the panic that ended the process, or nil
    declared,       \* the declarations made so far, with the handle each returned
    pc,             \* "idle": outside ArgParse; "loop": inside its for loop
    argv,           \* ArgParse's argument vector
    i,              \* ArgParse's loop index (a Go index: argv[0] is the program)
    rest,           \* ArgParse's rest slice; its first result once returned
    expect_optarg,  \* ArgParse's local expect_optarg
    waiting_opt,    \* ArgParse's local waiting_opt
    err,            \* ArgParse's second result
    calls,          \* the number of ArgParse calls started
    delivered,      \* the calls of takeValue and addOptArg so far, in order
    fired,          \* the callbacks invoked so far (OnTrue, OnFalse, Action), in order
    asked,          \* the invocations of OnRestArg, in order
    trace           \* what ArgParse did with each token of argv[1:], by index

vars == <<heap, Flags, Options, paramsByShort, paramsByLong, OnRestArg, panicked,
          declared, pc, argv, i, rest, expect_optarg, waiting_opt, err, calls,
          delivered, fired, asked, trace>>

----------------------------------------------------------------------------
(* Bounds of the model *)

MaxArgs == 2        \* tokens after the program name in an enumerated argv
MaxHandles == 2     \* objects allocated by declarations per run of Spec
MaxRuns == 2        \* ArgParse calls per run of Spec

----------------------------------------------------------------------------
(* Go values *)

nil == "nil"
NUL == "NUL"        \* the zero byte: ShortOpt of an entity declared without one

At(s, k) == s[k + 1]                        \* s[k]
Slice(s, a, b) == SubSeq(s, a + 1, b)       \* s[a:b]
From(s, a) == SubSeq(s, a + 1, Len(s))      \* s[a:]

(* the index of the last c in s instead of the first *)
IndexByte_last(s, c) ==
    IF \E k \in 1..Len(s) : s[k] = c
    THEN (CHOOSE k \in 1..Len(s) : s[k] = c /\ \A m \in (k + 1)..Len(s) : s[m] # c) - 1
    ELSE -1

IndexByte(s, c) ==
    IF \E k \in 1..Len(s) : s[k] = c
    THEN (CHOOSE k \in 1..Len(s) : s[k] = c /\ \A m \in 1..(k - 1) : s[m] # c) - 1
    ELSE -1

ToLower(c) ==
    CASE c = "T" -> "t" [] c = "R" -> "r" [] c = "U" -> "u" [] c = "E" -> "e"
      [] c = "F" -> "f" [] c = "A" -> "a" [] c = "L" -> "l" [] c = "S" -> "s"
      [] c = "Y" -> "y" [] c = "N" -> "n" [] c = "O" -> "o"
      [] OTHER -> c

EqualFold(s, t) ==
    /\ Len(s) = Len(t)
    /\ \A k \in 1..Len(s) : ToLower(s[k]) = ToLower(t[k])

errUnrecognizedShort == "Unrecognized short option:  %c"
errUnrecognizedLong == "Unrecognized long option:  %s"
errTriedToNegateOptArg == "Passed negation for option expecting argument: %c"
errPassedOptargToFlag == "Passed non-boolean option to flag:  %s"

Errorf(format, a) == [format |-> format, arg |-> a]
NoError == [format |-> nil, arg |-> nil]      \* the nil error

MapPut(m, k, v) == [x \in (DOMAIN m) \cup {k} |-> IF x = k THEN v ELSE m[x]]
EmptyMap == [x \in {} |-> nil]

----------------------------------------------------------------------------
(* Flag, Option and the delivery operations *)

FlagValue(s, l) ==
    [takesArg |-> FALSE, ShortOpt |-> s, LongOpt |-> l, Passed |-> FALSE,
     Count |-> 0, OnTrue |-> nil, OnFalse |-> nil]

OptionValue(s, l) ==
    [takesArg |-> TRUE, ShortOpt |-> s, LongOpt |-> l, Passed |-> FALSE,
     OptArg |-> <<>>, OptArgs |-> <<>>, Action |-> nil]

takesArgument(o) == o.takesArg

(* w is the part of the state a parse reads and writes: heap, delivered,   *)
(* fired, rest, asked, trace, expect_optarg, waiting_opt, err, returned.   *)
(* A nil pointer is the handle 0.                                          *)

(* entries of the logs delivered and fired *)
Delivery(h, isFlag, value, arg) == [h |-> h, flag |-> isFlag, value |-> value, arg |-> arg]
Callback(h, fn, arg) == [h |-> h, fn |-> fn, arg |-> arg]

(* takeValue with the decrement of a false delivery lost *)
takeValue_loseCount(w, f, value) ==
    LET w1 == [w EXCEPT !.heap[f].Count = IF value THEN @ + 1 ELSE @,
                        !.heap[f].Passed = value,
                        !.delivered = Append(@, Delivery(f, TRUE, value, <<>>))]
    IN  IF value /\ w1.heap[f].OnTrue # nil
        THEN [w1 EXCEPT !.fired = Append(@, Callback(f, "OnTrue", <<>>))]
        ELSE IF ~value /\ w1.heap[f].OnFalse # nil
             THEN [w1 EXCEPT !.fired = Append(@, Callback(f, "OnFalse", <<>>))]
             ELSE w1

takeValue(w, f, value) ==
    LET w1 == [w EXCEPT !.heap[f].Count = IF value THEN @ + 1 ELSE @ - 1,
                        !.heap[f].Passed = value,
                        !.delivered = Append(@, Delivery(f, TRUE, value, <<>>))]
    IN  IF value /\ w1.heap[f].OnTrue # nil
        THEN [w1 EXCEPT !.fired = Append(@, Callback(f, "OnTrue", <<>>))]
        ELSE IF ~value /\ w1.heap[f].OnFalse # nil
             THEN [w1 EXCEPT !.fired = Append(@, Callback(f, "OnFalse", <<>>))]
             ELSE w1

(* addOptArg keeping only the latest value in OptArgs *)
addOptArg_overwrite(w, o, arg) ==
    LET w1 == [w EXCEPT !.heap[o].OptArgs = <<arg>>,
                        !.heap[o].OptArg = arg,
                        !.heap[o].Passed = TRUE,
                        !.delivered = Append(@, Delivery(o, FALSE, TRUE, arg))]
    IN  IF w1.heap[o].Action # nil
        THEN [w1 EXCEPT !.fired = Append(@, Callback(o, "Action", arg))]
        ELSE w1

addOptArg(w, o, arg) ==
    LET w1 == [w EXCEPT !.heap[o].OptArgs = Append(@, arg),
                        !.heap[o].OptArg = arg,
                        !.heap[o].Passed = TRUE,
                        !.delivered = Append(@, Delivery(o, FALSE, TRUE, arg))]
    IN  IF w1.heap[o].Action # nil
        THEN [w1 EXCEPT !.fired = Append(@, Callback(o, "Action", arg))]
        ELSE w1

(* The functions a caller assigns to OnRestArg in this model: one keeps    *)
(* only what follows the dashes, one takes "-" for itself (standard input). *)
Filters == {"OnlyAfterDashes", "NoStdin"}

CallFilter(fn, arg, dash) ==
    CASE fn = "OnlyAfterDashes" -> dash
      [] fn = "NoStdin" -> arg # <<"-">>

(* addRest putting the new entry in front *)
addRest_prepend(w, arg, dash) ==
    IF OnRestArg # nil
    THEN LET keep == CallFilter(OnRestArg, arg, dash)
             w1 == [w EXCEPT !.asked = Append(@, [arg |-> arg, dash |-> dash,
                                                  kept |-> keep])]
         IN  IF keep
             THEN [w1 EXCEPT !.rest = <<[Argument |-> arg, AfterDashes |-> dash]>> \o @]
             ELSE w1
    ELSE [w EXCEPT !.rest = <<[Argument |-> arg, AfterDashes |-> dash]>> \o @]

(* addRest calling OnRestArg and appending whatever it answers *)
addRest_ignoresAnswer(w, arg, dash) ==
    IF OnRestArg # nil
    THEN LET keep == CallFilter(OnRestArg, arg, dash)
             w1 == [w EXCEPT !.asked = Append(@, [arg |-> arg, dash |-> dash,
                                                  kept |-> keep])]
         IN  [w1 EXCEPT !.rest = Append(@, [Argument |-> arg, AfterDashes |-> dash])]
    ELSE [w EXCEPT !.rest = Append(@, [Argument |-> arg, AfterDashes |-> dash])]

addRest(w, arg, dash) ==
    IF OnRestArg # nil
    THEN LET keep == CallFilter(OnRestArg, arg, dash)
             w1 == [w EXCEPT !.asked = Append(@, [arg |-> arg, dash |-> dash,
                                                  kept |-> keep])]
         IN  IF keep
             THEN [w1 EXCEPT !.rest = Append(@, [Argument |-> arg, AfterDashes |-> dash])]
             ELSE w1
    ELSE [w EXCEPT !.rest = Append(@, [Argument |-> arg, AfterDashes |-> dash])]

(* parseFlagOpt comparing with == instead of strings.EqualFold *)
parseFlagOpt_caseSensitive(flag, value) ==
    IF value = <<"f">> THEN [v |-> FALSE, err |-> NoError]
    ELSE IF value = <<"t">> THEN [v |-> TRUE, err |-> NoError]
    ELSE IF value = <<"y">> THEN [v |-> TRUE, err |-> NoError]
    ELSE IF value = <<"n">> THEN [v |-> FALSE, err |-> NoError]
    ELSE IF value = <<"n", "o">> THEN [v |-> FALSE, err |-> NoError]
    ELSE IF value = <<"y", "e", "s">> THEN [v |-> TRUE, err |-> NoError]
    ELSE IF value = <<"t", "r", "u", "e">> THEN [v |-> TRUE, err |-> NoError]
    ELSE IF value = <<"f", "a", "l", "s", "e">> THEN [v |-> FALSE, err |-> NoError]
    ELSE [v |-> FALSE, err |-> Errorf(errPassedOptargToFlag, flag)]

parseFlagOpt(flag, value) ==
    IF EqualFold(value, <<"f">>) THEN [v |-> FALSE, err |-> NoError]
    ELSE IF EqualFold(value, <<"t">>) THEN [v |-> TRUE, err |-> NoError]
    ELSE IF EqualFold(value, <<"y">>) THEN [v |-> TRUE, err |-> NoError]
    ELSE IF EqualFold(value, <<"n">>) THEN [v |-> FALSE, err |-> NoError]
    ELSE IF EqualFold(value, <<"n", "o">>) THEN [v |-> FALSE, err |-> NoError]
    ELSE IF EqualFold(value, <<"y", "e", "s">>) THEN [v |-> TRUE, err |-> NoError]
    ELSE IF EqualFold(value, <<"t", "r", "u", "e">>) THEN [v |-> TRUE, err |-> NoError]
    ELSE IF EqualFold(value, <<"f", "a", "l", "s", "e">>) THEN [v |-> FALSE, err |-> NoError]
    ELSE [v |-> FALSE, err |-> Errorf(errPassedOptargToFlag, flag)]

----------------------------------------------------------------------------
(* ArgParse *)

Mark(w, what) == [w EXCEPT !.trace = Append(@, what)]
(* an error recorded without leaving the loop *)
Return_continues(w, e) == [w EXCEPT !.err = e]

Return(w, e) == [w EXCEPT !.err = e, !.returned = TRUE]

(* the inner loop after "--" passing dash = false to addRest *)
RECURSIVE afterDashes_untagged(_, _, _)
afterDashes_untagged(w, av, k) ==
    IF k < Len(av)
    THEN afterDashes_untagged(Mark(addRest(w, At(av, k), FALSE), "after"), av, k + 1)
    ELSE w

(* case 2, arg == "--": the inner loop over the remaining arguments *)
RECURSIVE afterDashes(_, _, _)
afterDashes(w, av, k) ==
    IF k < Len(av)
    THEN afterDashes(Mark(addRest(w, At(av, k), TRUE), "after"), av, k + 1)
    ELSE w

(* shortOption taking an unregistered -X for a positional argument *)
shortOption_positional(w, arg) ==
    IF At(arg, 1) \in DOMAIN paramsByShort
    THEN LET p == paramsByShort[At(arg, 1)]
         IN  IF takesArgument(w.heap[p])
             THEN [w EXCEPT !.waiting_opt = p, !.expect_optarg = TRUE]
             ELSE takeValue(w, p, TRUE)
    ELSE addRest(w, arg, FALSE)

(* case 2, arg[0] == '-' *)
shortOption(w, arg) ==
    IF At(arg, 1) \in DOMAIN paramsByShort
    THEN LET p == paramsByShort[At(arg, 1)]
         IN  IF takesArgument(w.heap[p])
             THEN [w EXCEPT !.waiting_opt = p, !.expect_optarg = TRUE]
             ELSE takeValue(w, p, TRUE)
    ELSE Return(w, Errorf(errUnrecognizedShort, At(arg, 1)))

(* negatedShort treating +X for an Option X as -X *)
negatedShort_awaits(w, arg) ==
    IF At(arg, 1) \in DOMAIN paramsByShort
    THEN LET p == paramsByShort[At(arg, 1)]
         IN  IF takesArgument(w.heap[p])
             THEN [w EXCEPT !.waiting_opt = p, !.expect_optarg = TRUE]
             ELSE takeValue(w, p, FALSE)
    ELSE Return(w, Errorf(errUnrecognizedShort, At(arg, 1)))

(* case 2, arg[0] == '+' *)
negatedShort(w, arg) ==
    IF At(arg, 1) \in DOMAIN paramsByShort
    THEN LET p == paramsByShort[At(arg, 1)]
         IN  IF takesArgument(w.heap[p])
             THEN Return(w, Errorf(errTriedToNegateOptArg, At(arg, 1)))
             ELSE takeValue(w, p, FALSE)
    ELSE Return(w, Errorf(errUnrecognizedShort, At(arg, 1)))

(* default, arg[0] == '-' and arg[1] == '-' *)
longOption(w, arg) ==
    LET indexOfEquals == IndexByte(arg, "=")
    IN  IF indexOfEquals < 0
        THEN LET long == From(arg, 2)
             IN  IF long \in DOMAIN paramsByLong
                 THEN LET p == paramsByLong[long]
                      IN  IF takesArgument(w.heap[p])
                          THEN [w EXCEPT !.waiting_opt = p, !.expect_optarg = TRUE]
                          ELSE takeValue(w, p, TRUE)
                 ELSE Return(w, Errorf(errUnrecognizedLong, long))
        ELSE LET long == Slice(arg, 2, indexOfEquals)
                 optarg == From(arg, indexOfEquals + 1)
             IN  IF long \in DOMAIN paramsByLong
                 THEN LET p == paramsByLong[long]
                      IN  IF takesArgument(w.heap[p])
                          THEN addOptArg(w, p, optarg)
                          ELSE LET r == parseFlagOpt(long, optarg)
                               IN  IF r.err.format # nil
                                   THEN Return(w, r.err)
                                   ELSE takeValue(w, p, r.v)
                 ELSE Return(w, Errorf(errUnrecognizedLong, long))

(* the clump loop leaving the loop after the first Flag *)
clump_stopAfterFlag(w, arg, j) ==
    IF j < Len(arg)
    THEN IF At(arg, j) \in DOMAIN paramsByShort
         THEN LET p == paramsByShort[At(arg, j)]
              IN  IF takesArgument(w.heap[p])
                  THEN IF j < Len(arg) - 1
                       THEN addOptArg(w, p, From(arg, j))
                       ELSE [w EXCEPT !.waiting_opt = p, !.expect_optarg = TRUE]
                  ELSE takeValue(w, p, TRUE)
         ELSE Return(w, Errorf(errUnrecognizedShort, At(arg, j)))
    ELSE w

(* default, arg[0] == '-' and arg[1] != '-': the loop over j *)
RECURSIVE clump(_, _, _)
clump(w, arg, j) ==
    IF j < Len(arg)
    THEN IF At(arg, j) \in DOMAIN paramsByShort
         THEN LET p == paramsByShort[At(arg, j)]
              IN  IF takesArgument(w.heap[p])
                  THEN IF j < Len(arg) - 1
                       THEN addOptArg(w, p, From(arg, j))       \* break
                       ELSE clump([w EXCEPT !.waiting_opt = p, !.expect_optarg = TRUE],
                                  arg, j + 1)
                  ELSE clump(takeValue(w, p, TRUE), arg, j + 1)
         ELSE Return(w, Errorf(errUnrecognizedShort, At(arg, j)))
    ELSE w

(* the + clump undoing the token's own deliveries when it fails *)
RECURSIVE negatedClump_rollsBack(_, _, _)
negatedClump_rollsBack(w, arg, j) ==
    LET undone == [w EXCEPT !.heap = heap, !.delivered = delivered, !.fired = fired]
    IN  IF j < Len(arg)
        THEN IF At(arg, j) \in DOMAIN paramsByShort
             THEN LET p == paramsByShort[At(arg, j)]
                  IN  IF takesArgument(w.heap[p])
                      THEN Return(undone, Errorf(errTriedToNegateOptArg, At(arg, j)))
                      ELSE negatedClump_rollsBack(takeValue(w, p, FALSE), arg, j + 1)
             ELSE Return(undone, Errorf(errUnrecognizedShort, At(arg, j)))
        ELSE w

(* default, arg[0] == '+': the loop over j *)
RECURSIVE negatedClump(_, _, _)
negatedClump(w, arg, j) ==
    IF j < Len(arg)
    THEN IF At(arg, j) \in DOMAIN paramsByShort
         THEN LET p == paramsByShort[At(arg, j)]
              IN  IF takesArgument(w.heap[p])
                  THEN Return(w, Errorf(errTriedToNegateOptArg, At(arg, j)))
                  ELSE negatedClump(takeValue(w, p, FALSE), arg, j + 1)
         ELSE Return(w, Errorf(errUnrecognizedShort, At(arg, j)))
    ELSE w

(* the loop body classifying a token that begins with "-" even while an    *)
(* option awaits its value                                                 *)
Iteration_classifiesValue(w, av, k) ==
    LET arg == At(av, k)
        l == Len(arg)
    IN  IF w.expect_optarg /\ ~(l >= 1 /\ At(arg, 0) = "-")
        THEN Mark([addOptArg(w, w.waiting_opt, arg) EXCEPT !.expect_optarg = FALSE],
                  "optarg")
        ELSE CASE l = 0 -> Mark(w, "empty")
               [] l = 1 -> Mark(addRest(w, arg, FALSE), "rest")
               [] l = 2 ->
                    IF arg = <<"-", "-">>
                    THEN Return(afterDashes(Mark(w, "terminator"), av, k + 1), NoError)
                    ELSE IF At(arg, 0) = "-" THEN Mark(shortOption(w, arg), "short")
                    ELSE IF At(arg, 0) = "+" THEN Mark(negatedShort(w, arg), "negated")
                    ELSE Mark(addRest(w, arg, FALSE), "rest")
               [] OTHER ->
                    IF At(arg, 0) = "-"
                    THEN IF At(arg, 1) = "-"
                         THEN Mark(longOption(w, arg), "long")
                         ELSE Mark(clump(w, arg, 1), "clump")
                    ELSE IF At(arg, 0) = "+"
                         THEN Mark(negatedClump(w, arg, 1), "negclump")
                         ELSE Mark(addRest(w, arg, FALSE), "rest")

(* The body of the for loop for i = k. *)
Iteration(w, av, k) ==
    LET arg == At(av, k)
        l == Len(arg)
    IN  IF w.expect_optarg
        THEN Mark([addOptArg(w, w.waiting_opt, arg) EXCEPT !.expect_optarg = FALSE],
                  "optarg")
        ELSE CASE l = 0 -> Mark(w, "empty")
               [] l = 1 -> Mark(addRest(w, arg, FALSE), "rest")
               [] l = 2 ->
                    IF arg = <<"-", "-">>
                    THEN Return(afterDashes(Mark(w, "terminator"), av, k + 1), NoError)
                    ELSE IF At(arg, 0) = "-" THEN Mark(shortOption(w, arg), "short")
                    ELSE IF At(arg, 0) = "+" THEN Mark(negatedShort(w, arg), "negated")
                    ELSE Mark(addRest(w, arg, FALSE), "rest")
               [] OTHER ->
                    IF At(arg, 0) = "-"
                    THEN IF At(arg, 1) = "-"
                         THEN Mark(longOption(w, arg), "long")
                         ELSE Mark(clump(w, arg, 1), "clump")
                    ELSE IF At(arg, 0) = "+"
                         THEN Mark(negatedClump(w, arg, 1), "negclump")
                         ELSE Mark(addRest(w, arg, FALSE), "rest")

W == [heap |-> heap, delivered |-> delivered, fired |-> fired, rest |-> rest,
      asked |-> asked, trace |-> trace, expect_optarg |-> expect_optarg,
      waiting_opt |-> waiting_opt, err |-> err, returned |-> FALSE]

Registry == <<Flags, Options, paramsByShort, paramsByLong, OnRestArg, panicked, declared>>

(* the entry of ArgParse with expect_optarg and waiting_opt kept from the   *)
(* previous call, as package variables would be                            *)
ArgParseCall_keepsWaiting(av) ==
    /\ pc = "idle"
    /\ panicked = nil
    /\ pc' = "loop"
    /\ argv' = av
    /\ i' = 1
    /\ rest' = <<>>
    /\ err' = NoError
    /\ asked' = <<>>
    /\ trace' = <<>>
    /\ calls' = calls + 1
    /\ UNCHANGED <<heap, delivered, fired, expect_optarg, waiting_opt>>
    /\ UNCHANGED Registry

(* func ArgParse(argv): entry, up to the for loop *)
ArgParseCall(av) ==
    /\ pc = "idle"
    /\ panicked = nil
    /\ pc' = "loop"
    /\ argv' = av
    /\ i' = 1
    /\ rest' = <<>>
    /\ expect_optarg' = FALSE
    /\ waiting_opt' = 0
    /\ err' = NoError
    /\ asked' = <<>>
    /\ trace' = <<>>
    /\ calls' = calls + 1
    /\ UNCHANGED <<heap, delivered, fired>>
    /\ UNCHANGED Registry

(* one iteration with Flags holding the objects themselves, so that each   *)
(* delivery shows in the list                                              *)
ArgParseIteration_aliased ==
    /\ pc = "loop"
    /\ i < Len(argv)
    /\ LET w == Iteration(W, argv, i)
       IN  /\ heap' = w.heap
           /\ delivered' = w.delivered
           /\ fired' = w.fired
           /\ rest' = w.rest
           /\ asked' = w.asked
           /\ trace' = w.trace
           /\ expect_optarg' = w.expect_optarg
           /\ waiting_opt' = w.waiting_opt
           /\ err' = w.err
           /\ pc' = IF w.returned THEN "idle" ELSE "loop"
           /\ i' = IF w.returned THEN i ELSE i + 1
           /\ Flags' = [k \in 1..Len(Flags) |->
                           IF Flags[k].ShortOpt \in DOMAIN paramsByShort
                           THEN w.heap[paramsByShort[Flags[k].ShortOpt]]
                           ELSE w.heap[paramsByLong[Flags[k].LongOpt]]]
    /\ UNCHANGED <<argv, calls>>
    /\ UNCHANGED <<Options, paramsByShort, paramsByLong, OnRestArg, panicked, declared>>

(* one iteration of the for loop, and the return inside it if it returns *)
ArgParseIteration ==
    /\ pc = "loop"
    /\ i < Len(argv)
    /\ LET w == Iteration(W, argv, i)
       IN  /\ heap' = w.heap
           /\ delivered' = w.delivered
           /\ fired' = w.fired
           /\ rest' = w.rest
           /\ asked' = w.asked
           /\ trace' = w.trace
           /\ expect_optarg' = w.expect_optarg
           /\ waiting_opt' = w.waiting_opt
           /\ err' = w.err
           /\ pc' = IF w.returned THEN "idle" ELSE "loop"
           /\ i' = IF w.returned THEN i ELSE i + 1
    /\ UNCHANGED <<argv, calls>>
    /\ UNCHANGED Registry

(* the return after the loop handing an empty value to a waiting option *)
ArgParseReturn_deliversEmpty ==
    /\ pc = "loop"
    /\ ~(i < Len(argv))
    /\ pc' = "idle"
    /\ err' = NoError
    /\ LET w == IF expect_optarg THEN addOptArg(W, waiting_opt, <<>>) ELSE W
       IN  heap' = w.heap /\ delivered' = w.delivered /\ fired' = w.fired
    /\ UNCHANGED <<rest, asked, trace, expect_optarg, waiting_opt, argv, i, calls>>
    /\ UNCHANGED Registry

(* the loop condition fails: return rest, nil *)
ArgParseReturn ==
    /\ pc = "loop"
    /\ ~(i < Len(argv))
    /\ pc' = "idle"
    /\ err' = NoError
    /\ UNCHANGED <<heap, delivered, fired, rest, asked, trace, expect_optarg,
                   waiting_opt, argv, i, calls>>
    /\ UNCHANGED Registry

----------------------------------------------------------------------------
(* Declarations.  g is the package state a declaration reads and writes:   *)
(* heap, Flags, Options, paramsByShort, paramsByLong, OnRestArg, panicked, *)
(* declared, delivered, fired.                                             *)

checkShort(g, s) ==
    IF s \in DOMAIN g.paramsByShort
    THEN "Adding another command line option with same short option"
    ELSE nil

(* checkLong faulting only when the name belongs to a Flag *)
checkLong_flagsOnly(g, l) ==
    IF l \in DOMAIN g.paramsByLong /\ ~takesArgument(g.heap[g.paramsByLong[l]])
    THEN "Adding another command line option with same long option"
    ELSE nil

checkLong(g, l) ==
    IF l \in DOMAIN g.paramsByLong
    THEN "Adding another command line option with same long option"
    ELSE nil

(* a new object behind a pointer: &flag, &opt *)
Alloc(g, obj) ==
    [g EXCEPT !.heap = Append(@, obj)]

Declared(g, fn, s, l, h) ==
    [g EXCEPT !.declared = Append(@, [fn |-> fn, s |-> s, l |-> l, ret |-> h])]

(* NewFlag storing the address of a second copy in paramsByLong *)
NewFlag_copies(g, s, l) ==
    IF checkShort(g, s) # nil THEN [g EXCEPT !.panicked = checkShort(g, s)]
    ELSE IF checkLong(g, l) # nil THEN [g EXCEPT !.panicked = checkLong(g, l)]
    ELSE LET flag == Len(g.heap) + 1
             g1 == Alloc(Alloc(g, FlagValue(s, l)), FlagValue(s, l))
         IN  Declared([g1 EXCEPT !.Flags = Append(@, FlagValue(s, l)),
                                 !.paramsByShort = MapPut(@, s, flag),
                                 !.paramsByLong = MapPut(@, l, flag + 1)],
                      "NewFlag", s, l, flag)

NewFlag(g, s, l) ==
    IF checkShort(g, s) # nil THEN [g EXCEPT !.panicked = checkShort(g, s)]
    ELSE IF checkLong(g, l) # nil THEN [g EXCEPT !.panicked = checkLong(g, l)]
    ELSE LET flag == Len(g.heap) + 1
             g1 == Alloc(g, FlagValue(s, l))
         IN  Declared([g1 EXCEPT !.Flags = Append(@, FlagValue(s, l)),
                                 !.paramsByShort = MapPut(@, s, flag),
                                 !.paramsByLong = MapPut(@, l, flag)],
                      "NewFlag", s, l, flag)

NewFlagShort(g, s) ==
    IF checkShort(g, s) # nil THEN [g EXCEPT !.panicked = checkShort(g, s)]
    ELSE LET flag == Len(g.heap) + 1
             g1 == Alloc(g, FlagValue(s, <<>>))
         IN  Declared([g1 EXCEPT !.Flags = Append(@, FlagValue(s, <<>>)),
                                 !.paramsByShort = MapPut(@, s, flag)],
                      "NewFlagShort", s, <<>>, flag)

NewFlagLong(g, l) ==
    IF checkLong(g, l) # nil THEN [g EXCEPT !.panicked = checkLong(g, l)]
    ELSE LET flag == Len(g.heap) + 1
             g1 == Alloc(g, FlagValue(NUL, l))
         IN  Declared([g1 EXCEPT !.Flags = Append(@, FlagValue(NUL, l)),
                                 !.paramsByLong = MapPut(@, l, flag)],
                      "NewFlagLong", NUL, l, flag)

NewOption(g, s, l) ==
    IF checkShort(g, s) # nil THEN [g EXCEPT !.panicked = checkShort(g, s)]
    ELSE IF checkLong(g, l) # nil THEN [g EXCEPT !.panicked = checkLong(g, l)]
    ELSE LET opt == Len(g.heap) + 1
             g1 == Alloc(g, OptionValue(s, l))
         IN  Declared([g1 EXCEPT !.Options = Append(@, OptionValue(s, l)),
                                 !.paramsByShort = MapPut(@, s, opt),
                                 !.paramsByLong = MapPut(@, l, opt)],
                      "NewOption", s, l, opt)

NewOptionShort(g, s) ==
    IF checkShort(g, s) # nil THEN [g EXCEPT !.panicked = checkShort(g, s)]
    ELSE LET opt == Len(g.heap) + 1
             g1 == Alloc(g, OptionValue(s, <<>>))
         IN  Declared([g1 EXCEPT !.Options = Append(@, OptionValue(s, <<>>)),
                                 !.paramsByShort = MapPut(@, s, opt)],
                      "NewOptionShort", s, <<>>, opt)

NewOptionLong(g, l) ==
    IF checkLong(g, l) # nil THEN [g EXCEPT !.panicked = checkLong(g, l)]
    ELSE LET opt == Len(g.heap) + 1
             g1 == Alloc(g, OptionValue(NUL, l))
         IN  Declared([g1 EXCEPT !.Options = Append(@, OptionValue(NUL, l)),
                                 !.paramsByLong = MapPut(@, l, opt)],
                      "NewOptionLong", NUL, l, opt)

(* resetParams leaving the long-name table as it is *)
resetParams_keepsLong(g) ==
    [g EXCEPT !.paramsByShort = EmptyMap,
              !.Options = <<>>,
              !.Flags = <<>>,
              !.OnRestArg = nil,
              !.declared = <<>>]

resetParams(g) ==
    [g EXCEPT !.paramsByShort = EmptyMap,
              !.paramsByLong = EmptyMap,
              !.Options = <<>>,
              !.Flags = <<>>,
              !.OnRestArg = nil,
              !.declared = <<>>]

(* the caller assigns the callbacks of an object it holds a pointer to *)
SetCallbacks(g, h) ==
    IF takesArgument(g.heap[h])
    THEN [g EXCEPT !.heap[h].Action = "func"]
    ELSE [g EXCEPT !.heap[h].OnTrue = "func", !.heap[h].OnFalse = "func"]

(* the package state after import: the initialisers of the package vars *)
Package ==
    [heap |-> <<>>, Flags |-> <<>>, Options |-> <<>>, paramsByShort |-> EmptyMap,
     paramsByLong |-> EmptyMap, OnRestArg |-> nil, panicked |-> nil,
     declared |-> <<>>, delivered |-> <<>>, fired |-> <<>>]

G == [heap |-> heap, Flags |-> Flags, Options |-> Options,
      paramsByShort |-> paramsByShort, paramsByLong |-> paramsByLong,
      OnRestArg |-> OnRestArg, panicked |-> panicked, declared |-> declared,
      delivered |-> delivered, fired |-> fired]

Frame == <<pc, argv, i, rest, expect_optarg, waiting_opt, err, calls, asked, trace>>

Becomes(g) ==
    /\ heap' = g.heap
    /\ Flags' = g.Flags
    /\ Options' = g.Options
    /\ paramsByShort' = g.paramsByShort
    /\ paramsByLong' = g.paramsByLong
    /\ OnRestArg' = g.OnRestArg
    /\ panicked' = g.panicked
    /\ declared' = g.declared
    /\ delivered' = g.delivered
    /\ fired' = g.fired
    /\ UNCHANGED Frame

Is(g) ==
    /\ heap = g.heap
    /\ Flags = g.Flags
    /\ Options = g.Options
    /\ paramsByShort = g.paramsByShort
    /\ paramsByLong = g.paramsByLong
    /\ OnRestArg = g.OnRestArg
    /\ panicked = g.panicked
    /\ declared = g.declared
    /\ delivered = g.delivered
    /\ fired = g.fired

NoCall ==
    /\ pc = "idle"
    /\ argv = <<>>
    /\ i = 0
    /\ rest = <<>>
    /\ expect_optarg = FALSE
    /\ waiting_opt = 0
    /\ err = NoError
    /\ calls = 0
    /\ asked = <<>>
    /\ trace = <<>>

----------------------------------------------------------------------------
(* Strings of the inputs *)

verbose == <<"v", "e", "r", "b", "o", "s", "e">>
all == <<"a", "l", "l">>
file == <<"f", "i", "l", "e">>
zeta == <<"z", "e", "t", "a">>
hello == <<"h", "e", "l", "l", "o">>
test == <<"t", "e", "s", "t">>

dashFFile == <<"-", "f", "f", "i", "l", "e", ".", "t", "x", "t">>     \* -ffile.txt

Long(name) == <<"-", "-">> \o name
LongEq(name, value) == <<"-", "-">> \o name \o <<"=">> \o value

RECURSIVE SeqsUpTo(_, _)
SeqsUpTo(S, n) ==
    IF n = 0 THEN {<<>>}
    ELSE LET shorter == SeqsUpTo(S, n - 1)
         IN  shorter \cup {Append(q, t) : q \in shorter, t \in S}

----------------------------------------------------------------------------
(* SpecParse: one ArgParse call on the registry of the tests, from its     *)
(* entry to its return, for every argument vector of ArgvParse.            *)

(* NewFlag('v', "verbose", ..), NewFlag('a', "all", ..) as in TestParseCase07, *)
(* and an Option f / file as in the package comment, each with callbacks   *)
TestRegistry ==
    SetCallbacks(SetCallbacks(SetCallbacks(
        NewOption(NewFlag(NewFlag(Package, "v", verbose), "a", all), "f", file),
        1), 2), 3)

TokensParse ==
    { <<>>, <<"-">>, <<"-", "-">>, <<"h", "i">>, hello,
      <<"-", "v">>, <<"-", "f">>, <<"-", "z">>,
      <<"+", "v">>, <<"+", "f">>, <<"+", "z">>,
      Long(verbose), Long(file), Long(zeta),
      LongEq(verbose, <<"t", "r", "u", "e">>), LongEq(verbose, <<"N", "o">>),
      LongEq(verbose, <<"1">>),
      LongEq(file, <<"h", "i">>), LongEq(file, <<"a", "=", "b">>), LongEq(file, <<>>),
      LongEq(zeta, <<"h", "i">>), LongEq(zeta, <<"=">>), <<"-", "-", "=">>,
      <<"-", "a", "v">>, <<"-", "v", "v", "v">>, dashFFile,
      <<"-", "v", "f">>, <<"-", "v", "f", "a">>, <<"-", "v", "z", "a">>,
      <<"+", "a", "v">>, <<"+", "v", "f", "a">>, <<"+", "v", "z", "a">> }

(* the values tried after --verbose= *)
BoolValues ==
    { <<>>, <<"t">>, <<"T">>, <<"f">>, <<"F">>, <<"y">>, <<"Y">>, <<"n">>, <<"N">>,
      <<"n", "o">>, <<"N", "O">>, <<"y", "e", "s">>, <<"Y", "e", "S">>,
      <<"t", "r", "u", "e">>, <<"T", "R", "U", "E">>, <<"f", "a", "l", "s", "e">>,
      <<"F", "a", "l", "s", "E">>, <<"1">>, <<"0">>, <<"o", "n">>, <<"t", "r">>,
      <<"y", "e">>, <<"n", "o", "n">>, <<"t", "r", "u", "e", "e">>, <<"y", "e", "s", "=">> }

(* the argument vectors of the tests (TestParseCase01..09), and longer ones *)
TestArgvs ==
    { <<<<"-", "v">>>>,
      <<<<"-", "-">>, <<"-", "v">>>>,
      <<Long(verbose)>>,
      <<<<"-", "-">>, Long(verbose)>>,
      <<LongEq(verbose, <<"t", "r", "u", "e">>)>>,
      <<<<"-", "v">>, <<"+", "v">>>>,
      <<<<"-", "a", "v">>>>,
      <<<<"-", "v">>, LongEq(verbose, <<"f", "a", "l", "s", "e">>)>>,
      <<hello, <<"-">>, <<"-", "v">>, <<"-", "-">>, <<"-">>>> }

LongArgvs ==
    { <<<<"-", "f">>, <<"a">>, <<"-", "f">>, <<"b">>>>,
      <<<<"-", "f">>, <<"-", "-">>, Long(file), <<"-", "v">>, <<"-", "-">>, <<"-", "v">>>>,
      <<hello, <<"-", "-">>, <<"-", "v">>, <<>>, <<"-", "-">>, LongEq(file, <<"h", "i">>),
        <<"+", "v">>>>,
      <<<<"-", "v", "f">>, <<"-", "v">>, dashFFile, LongEq(file, <<"h", "i">>),
        <<"-", "v", "v", "v">>, <<"+", "a", "v">>>>,
      <<<<"-">>, <<"h", "i">>, <<>>, hello, <<"-", "-">>, <<"-">>, hello>>,
      <<hello, <<"-", "v">>, LongEq(verbose, <<"1">>), <<"-", "a">>, <<"h", "i">>>> }

ArgvParse ==
    { <<test>> \o q : q \in SeqsUpTo(TokensParse, MaxArgs) \cup TestArgvs \cup LongArgvs
                          \cup { <<LongEq(verbose, b)>> : b \in BoolValues }
                          \cup { <<<<"-", "v">>, LongEq(verbose, b)>> : b \in BoolValues } }

InitParse ==
    /\ \E fn \in Filters \cup {nil} : Is([TestRegistry EXCEPT !.OnRestArg = fn])
    /\ pc = "loop"
    /\ argv \in ArgvParse
    /\ i = 1
    /\ rest = <<>>
    /\ expect_optarg = FALSE
    /\ waiting_opt = 0
    /\ err = NoError
    /\ calls = 1
    /\ asked = <<>>
    /\ trace = <<>>

NextParse == ArgParseIteration \/ ArgParseReturn

SpecParse == InitParse /\ [][NextParse]_vars

----------------------------------------------------------------------------
(* Spec: the package from import on: declarations, resets, the caller's    *)
(* assignments to OnRestArg, and ArgParse calls.                           *)

ShortNames == {"v", "f"}
LongNames == {verbose, file}

(* the argument vectors of the calls: those of the tests and a few more *)
ArgvSmall ==
    { <<test>> \o q : q \in
        { <<<<"-", "v">>>>,
          <<<<"-", "-">>, <<"-", "v">>>>,
          <<Long(verbose)>>,
          <<<<"-", "v">>, <<"+", "v">>>>,
          <<<<"-", "v">>, LongEq(verbose, <<"f", "a", "l", "s", "e">>)>>,
          <<<<"-", "v", "f">>>>,
          <<<<"-", "f">>, <<"h", "i">>>>,
          <<LongEq(file, <<"h", "i">>), <<"h", "i">>>>,
          <<<<"h", "i">>, Long(file)>> } }

Init == Is(Package) /\ NoCall

CanDeclare == pc = "idle" /\ panicked = nil /\ Len(heap) < MaxHandles

DoNewFlag == CanDeclare /\ \E s \in ShortNames, l \in LongNames : Becomes(NewFlag(G, s, l))
DoNewFlagShort == CanDeclare /\ \E s \in ShortNames : Becomes(NewFlagShort(G, s))
DoNewFlagLong == CanDeclare /\ \E l \in LongNames : Becomes(NewFlagLong(G, l))
DoNewOption == CanDeclare /\ \E s \in ShortNames, l \in LongNames : Becomes(NewOption(G, s, l))
DoNewOptionShort == CanDeclare /\ \E s \in ShortNames : Becomes(NewOptionShort(G, s))
DoNewOptionLong == CanDeclare /\ \E l \in LongNames : Becomes(NewOptionLong(G, l))

DoResetParams ==
    /\ pc = "idle"
    /\ panicked = nil
    /\ Becomes(resetParams(G))

DoSetOnRestArg ==
    /\ pc = "idle"
    /\ panicked = nil
    /\ \E fn \in Filters \cup {nil} : Becomes([G EXCEPT !.OnRestArg = fn])

ArgParse ==
    /\ calls < MaxRuns
    /\ \E av \in ArgvSmall : ArgParseCall(av)

Next ==
    \/ DoNewFlag \/ DoNewFlagShort \/ DoNewFlagLong
    \/ DoNewOption \/ DoNewOptionShort \/ DoNewOptionLong
    \/ DoResetParams \/ DoSetOnRestArg
    \/ ArgParse \/ ArgParseIteration \/ ArgParseReturn

Spec == Init /\ [][Next]_vars

----------------------------------------------------------------------------
(* SpecCalls: repeated ArgParse calls on the registry of the tests, with   *)
(* no reset in between and no OnRestArg.                                   *)

TokensCalls ==
    { <<"-", "-">>, <<"h", "i">>, <<"-", "v">>, <<"+", "v">>, <<"-", "f">>, <<"-", "z">>,
      Long(verbose), LongEq(verbose, <<"t", "r", "u", "e">>), LongEq(verbose, <<"N", "o">>),
      LongEq(file, <<"h", "i">>),
      <<"-", "a", "v">>, <<"-", "v", "v", "v">>, <<"+", "a", "v">>, <<"-", "v", "f">> }

FileAFileB == <<<<"-", "f">>, <<"a">>, <<"-", "f">>, <<"b">>>>     \* -f a -f b

(* each token alone, and vectors that deliver twice, end awaiting a value, *)
(* fail half way or pass the terminator                                    *)
ArgvCalls ==
    { <<test, t>> : t \in TokensCalls } \cup
    { <<test>> \o q : q \in
        { FileAFileB,
          <<<<"-", "v">>, <<"+", "v">>>>,
          <<<<"+", "v">>, <<"+", "v">>>>,
          <<<<"-", "v">>, LongEq(verbose, <<"N", "o">>)>>,
          <<<<"-", "v", "v", "v">>, <<"+", "a", "v">>>>,
          <<<<"-", "f">>, <<"h", "i">>>>,
          <<<<"-", "f">>, <<"-", "v">>>>,
          <<<<"-", "v", "f">>, <<"-", "-">>>>,
          <<Long(file), LongEq(file, <<"h", "i">>)>>,
          <<LongEq(file, <<"h", "i">>), LongEq(file, <<"h", "i">>)>>,
          <<<<"-", "v">>, <<"-", "z">>>>,
          <<<<"-", "z">>, <<"-", "v">>>>,
          <<<<"-", "-">>, <<"-", "v">>>>,
          <<<<"h", "i">>, <<"-", "f">>>> } }

InitCalls == Is(TestRegistry) /\ NoCall

ArgParseAgain ==
    /\ calls < MaxRuns
    /\ \E av \in ArgvCalls : ArgParseCall(av)

NextCalls == ArgParseAgain \/ ArgParseIteration \/ ArgParseReturn

SpecCalls == InitCalls /\ [][NextCalls]_vars

----------------------------------------------------------------------------
(* Vocabulary of the properties *)

Handles == 1..Len(heap)
ArgvTokens == {argv[k] : k \in 1..Len(argv)}

(* the values delivered to the Flag h, and the arguments delivered to the Option h *)
ValuesTo(h) ==
    LET ds == SelectSeq(delivered, LAMBDA d : d.h = h /\ d.flag)
    IN  [k \in 1..Len(ds) |-> ds[k].value]
ArgsTo(h) ==
    LET ds == SelectSeq(delivered, LAMBDA d : d.h = h /\ ~d.flag)
    IN  [k \in 1..Len(ds) |-> ds[k].arg]

Times(q, x) == Cardinality({k \in 1..Len(q) : q[k] = x})
IsPrefix(p, q) == Len(p) <= Len(q) /\ SubSeq(q, 1, Len(p)) = p

(* ArgParse is about to classify the token tok: no option awaits a value *)
Classifying(tok) ==
    pc = "loop" /\ i < Len(argv) /\ ~expect_optarg /\ At(argv, i) = tok
(* ArgParse is about to hand the token tok to the waiting option *)
Consuming(tok) ==
    pc = "loop" /\ i < Len(argv) /\ expect_optarg /\ At(argv, i) = tok
Returned == pc = "idle" /\ calls > 0

TrueSpellings == { <<"t">>, <<"y">>, <<"y", "e", "s">>, <<"t", "r", "u", "e">> }
FalseSpellings == { <<"f">>, <<"n">>, <<"n", "o">>, <<"f", "a", "l", "s", "e">> }
Lowered(q) == [k \in 1..Len(q) |-> ToLower(q[k])]
Spelled(S) == {b \in BoolValues : Lowered(b) \in S}

ShortOf(c) == IF c \in DOMAIN paramsByShort THEN paramsByShort[c] ELSE 0
LongOf(n) == IF n \in DOMAIN paramsByLong THEN paramsByLong[n] ELSE 0
FlagHandles == {h \in Handles : ~heap[h].takesArg}
OptionHandles == {h \in Handles : heap[h].takesArg}
ShortsOf(h) == {c \in DOMAIN paramsByShort : paramsByShort[c] = h}
LongsOf(h) == {n \in DOMAIN paramsByLong : paramsByLong[n] = h}

----------------------------------------------------------------------------
(* C1: every Flag's Count is the number of true deliveries minus the      *)
(* number of false deliveries it received, over all calls, and its Passed *)
(* is the value of the latest delivery; each -X, --name and               *)
(* --name=<true spelling> token is one true delivery (Count + 1), each +X *)
(* and --name=<false spelling> token one false delivery (Count - 1).      *)

C1_TrueTokens(h) ==
    { <<"-", c>> : c \in ShortsOf(h) } \cup { Long(n) : n \in LongsOf(h) }
        \cup { LongEq(n, b) : n \in LongsOf(h), b \in Spelled(TrueSpellings) }
C1_FalseTokens(h) ==
    { <<"+", c>> : c \in ShortsOf(h) }
        \cup { LongEq(n, b) : n \in LongsOf(h), b \in Spelled(FalseSpellings) }

C1_Net ==
    \A h \in FlagHandles :
        /\ heap[h].Count = Times(ValuesTo(h), TRUE) - Times(ValuesTo(h), FALSE)
        /\ heap[h].Passed = IF ValuesTo(h) = <<>> THEN FALSE
                            ELSE ValuesTo(h)[Len(ValuesTo(h))]

C1_Token ==
    \A h \in FlagHandles :
        /\ (\E t \in C1_TrueTokens(h) : Classifying(t)) =>
              /\ delivered' = Append(delivered, Delivery(h, TRUE, TRUE, <<>>))
              /\ heap'[h].Count = heap[h].Count + 1
              /\ heap'[h].Passed
        /\ (\E t \in C1_FalseTokens(h) : Classifying(t)) =>
              /\ delivered' = Append(delivered, Delivery(h, TRUE, FALSE, <<>>))
              /\ heap'[h].Count = heap[h].Count - 1
              /\ ~heap'[h].Passed

\* C1: Count is true deliveries minus false deliveries, Passed the latest delivery,
\* and each flag token is exactly one delivery.
C1_CountIsNetDeliveries == []C1_Net /\ [][C1_Token]_vars

(* a second call has left v with a negative count after three deliveries *)
C1_Witness ==
    /\ Returned /\ calls = 2
    /\ heap[1].Count = -1
    /\ Len(ValuesTo(1)) = 3
    /\ ~heap[1].Passed

----------------------------------------------------------------------------
(* C2: when ArgParse classifies "--", every later token goes to Rest with *)
(* AfterDashes = true in input order, the call returns nil, and no Flag   *)
(* or Option changes.                                                     *)

C2_Later == From(argv, i + 1)
C2_Tagged(q) == [k \in 1..Len(q) |-> [Argument |-> q[k], AfterDashes |-> TRUE]]
C2_Frame ==
    /\ pc' = "idle"
    /\ err' = NoError
    /\ heap' = heap
    /\ delivered' = delivered
    /\ fired' = fired

\* C2 as stated: after the terminator every later token is appended to Rest with
\* AfterDashes = true, nil is returned and no Flag or Option changes.
C2_AllLaterTokensAppended ==
    [][Classifying(<<"-", "-">>) => rest' = rest \o C2_Tagged(C2_Later) /\ C2_Frame]_vars

(* as amended: every later token that OnRestArg, if installed, accepts *)
C2_Accepted ==
    SelectSeq(C2_Later, LAMBDA t : OnRestArg = nil \/ CallFilter(OnRestArg, t, TRUE))

\* C2, amended: after the terminator every later token that OnRestArg (if any)
\* accepts is appended with AfterDashes = true, in order; nil is returned and no
\* Flag or Option changes.
C2_AcceptedLaterTokensAppended ==
    [][Classifying(<<"-", "-">>) => rest' = rest \o C2_Tagged(C2_Accepted) /\ C2_Frame]_vars

(* the terminator was followed by -v, an empty token, a second --, --file=hi, +v *)
C2_Witness ==
    /\ Returned
    /\ OnRestArg = "OnlyAfterDashes"
    /\ argv = <<test, hello, <<"-", "-">>, <<"-", "v">>, <<>>, <<"-", "-">>,
                LongEq(file, <<"h", "i">>), <<"+", "v">>>>
    /\ Len(rest) = 5
    /\ delivered = <<>>

----------------------------------------------------------------------------
(* C3: with no OnRestArg, the Rest of a successful ArgParse is exactly    *)
(* the positional tokens of argv[1:] in order, tagged by whether they     *)
(* follow the terminator, no untagged entry after a tagged one.           *)

C3_Indices == [k \in 1..(Len(argv) - 1) |-> k]
C3_Terminator ==
    IF \E k \in 1..Len(trace) : trace[k] = "terminator"
    THEN CHOOSE k \in 1..Len(trace) : trace[k] = "terminator"
    ELSE Len(argv)
C3_Shape(t) == Len(t) = 1 \/ (Len(t) >= 2 /\ t[1] \notin {"-", "+"})
C3_Positional(k) ==
    \/ k > C3_Terminator
    \/ k < C3_Terminator /\ trace[k] # "optarg" /\ C3_Shape(At(argv, k))
C3_Expected ==
    LET idx == SelectSeq(C3_Indices, C3_Positional)
    IN  [n \in 1..Len(idx) |->
            [Argument |-> At(argv, idx[n]), AfterDashes |-> idx[n] > C3_Terminator]]

Case09 == <<test, hello, <<"-">>, <<"-", "v">>, <<"-", "-">>, <<"-">>>>

\* C3: with no OnRestArg, a successful parse returns exactly the positional tokens,
\* in order, tagged, the tagged ones last.
C3_RestIsPositionalsInOrder ==
    (Returned /\ err.format = nil /\ OnRestArg = nil) =>
        /\ Len(trace) = Len(argv) - 1
        /\ rest = C3_Expected
        /\ \A m, n \in 1..Len(rest) : (m < n /\ rest[m].AfterDashes) => rest[n].AfterDashes
        /\ argv = Case09 =>
              /\ rest = <<[Argument |-> hello, AfterDashes |-> FALSE],
                          [Argument |-> <<"-">>, AfterDashes |-> FALSE],
                          [Argument |-> <<"-">>, AfterDashes |-> TRUE]>>
              /\ heap[1].Passed

C3_Witness ==
    /\ Returned /\ err.format = nil /\ OnRestArg = nil
    /\ argv = Case09
    /\ Len(rest) = 3

----------------------------------------------------------------------------
(* C4: an Option's OptArgs is the list of the values delivered to it, in  *)
(* order of delivery and append-only, OptArg is the last of them, and     *)
(* Passed holds exactly when there is one.                                *)

C4_History ==
    \A h \in OptionHandles :
        /\ heap[h].OptArgs = ArgsTo(h)
        /\ heap[h].Passed = (Len(ArgsTo(h)) >= 1)
        /\ heap[h].Passed => Len(heap[h].OptArgs) >= 1
        /\ Len(ArgsTo(h)) >= 1 => heap[h].OptArg = ArgsTo(h)[Len(ArgsTo(h))]
        /\ Len(ArgsTo(h)) = 0 => heap[h].OptArg = <<>>

C4_Token ==
    /\ \A h \in OptionHandles : IsPrefix(heap[h].OptArgs, heap'[h].OptArgs)
    /\ \A t \in ArgvTokens :
          Consuming(t) =>
              heap'[waiting_opt].OptArgs = Append(heap[waiting_opt].OptArgs, t)
    /\ \A h \in OptionHandles : \A n \in LongsOf(h) : \A x \in {<<>>, <<"h", "i">>, <<"a", "=", "b">>} :
          Classifying(LongEq(n, x)) => heap'[h].OptArgs = Append(heap[h].OptArgs, x)

C4_Example ==
    (Returned /\ calls = 1 /\ argv = <<test>> \o FileAFileB) =>
        heap[3].OptArg = <<"b">> /\ heap[3].OptArgs = <<<<"a">>, <<"b">>>>

\* C4: OptArgs is the append-only history of delivered values, OptArg its last
\* element, Passed true exactly when it is not empty.
C4_OptArgsIsDeliveryHistory == [](C4_History /\ C4_Example) /\ [][C4_Token]_vars

(* over two calls the option got the same value twice and then another *)
C4_Witness ==
    /\ Returned /\ calls = 2
    /\ heap[3].OptArgs = <<<<"h", "i">>, <<"h", "i">>, <<"-", "v">>>>
    /\ heap[3].OptArg = <<"-", "v">>

----------------------------------------------------------------------------
(* Clumps *)

IsClump(t, sign) == Len(t) >= 3 /\ t[1] = sign /\ (sign = "-" => t[2] # "-")
(* the characters of t before position j (a TLA+ index) all resolve to Flags *)
FlagsBefore(t, j) == \A m \in 2..(j - 1) : ShortOf(t[m]) \in FlagHandles
Fails(format, a) ==
    /\ pc' = "idle"
    /\ err'.format = format
    /\ err'.arg = a
    /\ rest' = rest
    /\ asked' = asked

----------------------------------------------------------------------------
(* C5: in a - clump, an Option character X that is not the last character *)
(* receives the remainder of the token after X, X itself excluded, as its *)
(* value, and scanning stops there.                                        *)

\* C5: the inline value of an Option inside a - clump is the text after the
\* option character.
C5_InlineValueExcludesOptionChar ==
    [][\A t \in ArgvTokens : \A j \in 2..(Len(t) - 1) :
          (Classifying(t) /\ IsClump(t, "-")
              /\ ShortOf(t[j]) \in OptionHandles /\ FlagsBefore(t, j)) =>
              /\ heap'[ShortOf(t[j])].OptArg = SubSeq(t, j + 1, Len(t))
              /\ delivered' = delivered
                    \o [k \in 1..(j - 2) |-> Delivery(ShortOf(t[k + 1]), TRUE, TRUE, <<>>)]
                    \o <<Delivery(ShortOf(t[j]), FALSE, TRUE, SubSeq(t, j + 1, Len(t)))>>
              /\ ~expect_optarg'
              /\ pc' = "loop"]_vars

----------------------------------------------------------------------------
(* C6: a - clump of Flag characters delivers true to each character's     *)
(* Flag once per occurrence, left to right, a + clump of Flag characters  *)
(* false; neither adds to Rest nor leaves an option awaiting a value.     *)

C6_AllFlags(t) == \A j \in 2..Len(t) : ShortOf(t[j]) \in FlagHandles
C6_Occurrences(t, h) == Cardinality({j \in 2..Len(t) : ShortOf(t[j]) = h})
C6_Deliveries(t) ==
    [k \in 1..(Len(t) - 1) |-> Delivery(ShortOf(t[k + 1]), TRUE, t[1] = "-", <<>>)]
C6_Callbacks(t) ==
    LET hooked == SelectSeq(C6_Deliveries(t),
                      LAMBDA d : IF d.value THEN heap[d.h].OnTrue # nil
                                 ELSE heap[d.h].OnFalse # nil)
    IN  [k \in 1..Len(hooked) |->
            Callback(hooked[k].h, IF hooked[k].value THEN "OnTrue" ELSE "OnFalse", <<>>)]

\* C6: a clump of Flag characters is one delivery per character, left to right.
C6_FlagClumpDeliversEach ==
    [][\A t \in ArgvTokens :
          (Classifying(t) /\ (IsClump(t, "-") \/ IsClump(t, "+")) /\ C6_AllFlags(t)) =>
              /\ delivered' = delivered \o C6_Deliveries(t)
              /\ fired' = fired \o C6_Callbacks(t)
              /\ \A h \in FlagHandles :
                    /\ heap'[h].Count = heap[h].Count
                          + (IF t[1] = "-" THEN 1 ELSE -1) * C6_Occurrences(t, h)
                    /\ C6_Occurrences(t, h) > 0 => heap'[h].Passed = (t[1] = "-")
                    /\ C6_Occurrences(t, h) = 0 => heap'[h] = heap[h]
              /\ rest' = rest
              /\ asked' = asked
              /\ ~expect_optarg'
              /\ pc' = "loop"
              /\ err' = NoError]_vars

(* -vvv then +av: v was raised three times and lowered once, a lowered once *)
C6_Witness ==
    /\ Returned
    /\ argv = <<test, <<"-", "v", "v", "v">>, <<"+", "a", "v">>>>
    /\ heap[1].Count = 2
    /\ heap[2].Count = -1
    /\ rest = <<>>

----------------------------------------------------------------------------
(* C7: with no option awaiting a value, an unregistered short option      *)
(* character (the X of a two-character -X or +X, or a scanned character   *)
(* of a clump) fails the parse with the unrecognized-short-option error   *)
(* for that character; nothing is added to Rest.                          *)

\* C7: an unregistered short option character fails the parse, naming it.
C7_UnregisteredShortFails ==
    [][\A t \in ArgvTokens : Classifying(t) =>
          /\ (Len(t) = 2 /\ t[1] \in {"-", "+"} /\ t # <<"-", "-">>
                  /\ t[2] \notin DOMAIN paramsByShort) =>
                Fails(errUnrecognizedShort, t[2]) /\ heap' = heap
          /\ (IsClump(t, "-") \/ IsClump(t, "+")) =>
                \A j \in 2..Len(t) :
                    (t[j] \notin DOMAIN paramsByShort /\ FlagsBefore(t, j)) =>
                        Fails(errUnrecognizedShort, t[j])]_vars

(* -vza: v was delivered, then z failed the parse and a was never reached *)
C7_Witness ==
    /\ Returned
    /\ OnRestArg = nil
    /\ argv = <<test, hello, <<"-", "v", "z", "a">>>>
    /\ err.format = errUnrecognizedShort
    /\ err.arg = "z"
    /\ heap[1].Count = 1
    /\ heap[2].Count = 0
    /\ Len(rest) = 1

----------------------------------------------------------------------------
(* C8: +X for an Option X, alone or reached in a + clump, fails with the  *)
(* negation error naming X; the Option is unchanged and awaits nothing.   *)

\* C8: negating an Option fails, naming it, and leaves it unchanged.
C8_NegatedOptionFails ==
    [][\A t \in ArgvTokens : \A j \in 2..Len(t) :
          (Classifying(t) /\ t[1] = "+"
              /\ ShortOf(t[j]) \in OptionHandles /\ FlagsBefore(t, j)) =>
              /\ Fails(errTriedToNegateOptArg, t[j])
              /\ heap'[ShortOf(t[j])] = heap[ShortOf(t[j])]
              /\ ArgsTo(ShortOf(t[j]))' = ArgsTo(ShortOf(t[j]))
              /\ ~expect_optarg']_vars

(* +vfa: v was lowered, f refused, a never reached *)
C8_Witness ==
    /\ Returned
    /\ argv = <<test, LongEq(file, <<"h", "i">>), <<"+", "v", "f", "a">>>>
    /\ err.format = errTriedToNegateOptArg
    /\ err.arg = "f"
    /\ heap[1].Count = -1
    /\ heap[2].Count = 0
    /\ heap[3].OptArgs = <<<<"h", "i">>>>
    /\ ~expect_optarg

----------------------------------------------------------------------------
(* C9: --name=value for a Flag: a true spelling (t, y, yes, true in any   *)
(* case) delivers true, a false spelling (f, n, no, false) delivers       *)
(* false, any other value fails with the invalid-boolean error naming the *)
(* long option and leaves every Flag as it was.                           *)

\* C9: --name=value for a Flag accepts exactly the eight spellings, in any case.
C9_BooleanSpellings ==
    [][\A h \in FlagHandles : \A n \in LongsOf(h) : \A b \in BoolValues :
          Classifying(LongEq(n, b)) =>
              IF Lowered(b) \in TrueSpellings
              THEN /\ delivered' = Append(delivered, Delivery(h, TRUE, TRUE, <<>>))
                   /\ heap'[h].Passed
                   /\ heap'[h].Count = heap[h].Count + 1
                   /\ pc' = "loop"
              ELSE IF Lowered(b) \in FalseSpellings
              THEN /\ delivered' = Append(delivered, Delivery(h, TRUE, FALSE, <<>>))
                   /\ ~heap'[h].Passed
                   /\ heap'[h].Count = heap[h].Count - 1
                   /\ pc' = "loop"
              ELSE /\ Fails(errPassedOptargToFlag, n)
                   /\ heap' = heap
                   /\ delivered' = delivered]_vars

(* -v --verbose=FalsE: the mixed-case spelling lowered v again *)
C9_Witness ==
    /\ Returned
    /\ argv = <<test, <<"-", "v">>, LongEq(verbose, <<"F", "a", "l", "s", "E">>)>>
    /\ err.format = nil
    /\ heap[1].Count = 0
    /\ ~heap[1].Passed

----------------------------------------------------------------------------
(* C10: for an entity declared with a short and a long name, both lookups *)
(* yield the handle the declaration returned, ArgParse never changes the  *)
(* lookup tables, and -v --verbose=false leaves the Flag returned by      *)
(* NewFlag false with count 0.                                            *)

Case08 == <<test, <<"-", "v">>, LongEq(verbose, <<"f", "a", "l", "s", "e">>)>>

C10_Lookup ==
    \A k \in 1..Len(declared) :
        declared[k].fn \in {"NewFlag", "NewOption"} =>
            /\ ShortOf(declared[k].s) = declared[k].ret
            /\ LongOf(declared[k].l) = declared[k].ret

C10_Example ==
    \A k \in 1..Len(declared) :
        (Returned /\ calls = 1 /\ argv = Case08 /\ err.format = nil
            /\ declared[k].fn = "NewFlag" /\ declared[k].s = "v"
            /\ declared[k].l = verbose /\ ValuesTo(declared[k].ret) # <<>>) =>
            /\ ValuesTo(declared[k].ret) = <<TRUE, FALSE>>
            /\ heap[declared[k].ret].Count = 0
            /\ ~heap[declared[k].ret].Passed

C10_TablesStable ==
    (pc = "loop" \/ pc' = "loop") =>
        paramsByShort' = paramsByShort /\ paramsByLong' = paramsByLong

\* C10: both names of an entity look up the handle its declaration returned,
\* ArgParse leaves the tables alone, and -v --verbose=false acts on one Flag.
C10_BothNamesOneHandle == [](C10_Lookup /\ C10_Example) /\ [][C10_TablesStable]_vars

(* the test's flag after -v --verbose=false, both deliveries on one handle *)
C10_Witness ==
    /\ Returned /\ calls = 1 /\ argv = Case08 /\ err.format = nil
    /\ \E k \in 1..Len(declared) :
          /\ declared[k].fn = "NewFlag"
          /\ ValuesTo(declared[k].ret) = <<TRUE, FALSE>>
          /\ heap[declared[k].ret].Count = 0

----------------------------------------------------------------------------
(* C11: an Option matched without an inline value (-X, --name, or the     *)
(* last character of a - clump after Flags) awaits a value; the next      *)
(* token, whatever its shape, is delivered whole to that Option and to    *)
(* nothing else: no classification, no Rest entry, no error; after it no  *)
(* option awaits a value.                                                 *)

(* the token t, being classified, ends with an Option asking for its value *)
C11_Asks(t, h) ==
    \/ Len(t) = 2 /\ t[1] = "-" /\ t # <<"-", "-">> /\ ShortOf(t[2]) = h
    \/ Len(t) >= 3 /\ t[1] = "-" /\ t[2] = "-" /\ IndexByte(t, "=") < 0
          /\ LongOf(From(t, 2)) = h
    \/ IsClump(t, "-") /\ ShortOf(t[Len(t)]) = h /\ FlagsBefore(t, Len(t))

C11_Awaits ==
    \A t \in ArgvTokens : \A h \in OptionHandles :
        (Classifying(t) /\ C11_Asks(t, h)) =>
            /\ expect_optarg' /\ waiting_opt' = h
            /\ heap'[h] = heap[h]
            /\ pc' = "loop" /\ err' = NoError
            /\ rest' = rest

C11_Consumes ==
    \A t \in ArgvTokens :
        Consuming(t) =>
            /\ waiting_opt \in OptionHandles
            /\ delivered' = Append(delivered, Delivery(waiting_opt, FALSE, TRUE, t))
            /\ heap'[waiting_opt].OptArg = t
            /\ heap'[waiting_opt].OptArgs = Append(heap[waiting_opt].OptArgs, t)
            /\ \A h \in Handles \ {waiting_opt} : heap'[h] = heap[h]
            /\ trace' = Append(trace, "optarg")
            /\ rest' = rest /\ asked' = asked
            /\ err' = NoError /\ pc' = "loop" /\ i' = i + 1
            /\ ~expect_optarg'

(* an option awaits a value only while ArgParse runs, and only just after *)
(* the token that asked for it                                            *)
C11_OnlyAfterAsking ==
    (pc = "loop" /\ expect_optarg) =>
        /\ waiting_opt \in OptionHandles
        /\ i >= 2
        /\ trace[i - 1] \in {"short", "long", "clump"}

\* C11: the token after an Option that asked for a value is delivered whole to
\* that Option, whatever its shape, and to nothing else; then nothing is awaited.
C11_NextTokenIsTheValue == []C11_OnlyAfterAsking /\ [][C11_Awaits /\ C11_Consumes]_vars

(* -vf then --: the terminator became the value of f and ended nothing *)
C11_Witness ==
    /\ Returned /\ err.format = nil
    /\ argv = <<test, <<"-", "v", "f">>, <<"-", "-">>>>
    /\ heap[3].OptArgs = <<<<"-", "-">>>>
    /\ trace = <<"clump", "optarg">>
    /\ rest = <<>>
    /\ ~expect_optarg

----------------------------------------------------------------------------
(* C12: the entities declared since the last reset have pairwise distinct *)
(* short names and pairwise distinct long names, Flags and Options alike; *)
(* a declaration panics exactly when a name it gives is registered, and   *)
(* then registers nothing; otherwise it registers a new entity.           *)

C12_GivesShort(fn) == fn \in {"NewFlag", "NewFlagShort", "NewOption", "NewOptionShort"}
C12_GivesLong(fn) == fn \in {"NewFlag", "NewFlagLong", "NewOption", "NewOptionLong"}

C12_Distinct ==
    \A m, n \in 1..Len(declared) :
        m # n =>
            /\ declared[m].ret # declared[n].ret
            /\ (C12_GivesShort(declared[m].fn) /\ C12_GivesShort(declared[n].fn)) =>
                  declared[m].s # declared[n].s
            /\ (C12_GivesLong(declared[m].fn) /\ C12_GivesLong(declared[n].fn)) =>
                  declared[m].l # declared[n].l

(* every registered name belongs to one declaration since the reset *)
C12_Registered ==
    /\ \A c \in DOMAIN paramsByShort :
          \E k \in 1..Len(declared) :
              C12_GivesShort(declared[k].fn) /\ declared[k].s = c
                  /\ declared[k].ret = paramsByShort[c]
                  /\ heap[declared[k].ret].ShortOpt = c
    /\ \A n \in DOMAIN paramsByLong :
          \E k \in 1..Len(declared) :
              C12_GivesLong(declared[k].fn) /\ declared[k].l = n
                  /\ declared[k].ret = paramsByLong[n]
                  /\ heap[declared[k].ret].LongOpt = n
    /\ Len(Flags) + Len(Options) = Len(declared)

(* the outcome g of a declaration that gave the names in short and long *)
C12_Outcome(g, fn, short, long) ==
    LET taken == (\E c \in short : c \in DOMAIN paramsByShort)
                     \/ (\E n \in long : n \in DOMAIN paramsByLong)
    IN  /\ (g.panicked # nil) = taken
        /\ taken =>
              /\ g.paramsByShort = paramsByShort /\ g.paramsByLong = paramsByLong
              /\ g.heap = heap /\ g.Flags = Flags /\ g.Options = Options
              /\ g.declared = declared
        /\ ~taken =>
              /\ Len(g.declared) = Len(declared) + 1
              /\ g.declared[Len(g.declared)].fn = fn
              /\ g.declared[Len(g.declared)].ret = Len(heap) + 1
              /\ Len(g.heap) = Len(heap) + 1
              /\ \A c \in short : g.paramsByShort[c] = Len(heap) + 1
              /\ \A n \in long : g.paramsByLong[n] = Len(heap) + 1
              /\ DOMAIN g.paramsByShort = DOMAIN paramsByShort \cup short
              /\ DOMAIN g.paramsByLong = DOMAIN paramsByLong \cup long

C12_FaultsExactlyOnTaken ==
    \A s \in ShortNames : \A l \in LongNames :
        panicked = nil =>
        /\ C12_Outcome(NewFlag(G, s, l), "NewFlag", {s}, {l})
        /\ C12_Outcome(NewFlagShort(G, s), "NewFlagShort", {s}, {})
        /\ C12_Outcome(NewFlagLong(G, l), "NewFlagLong", {}, {l})
        /\ C12_Outcome(NewOption(G, s, l), "NewOption", {s}, {l})
        /\ C12_Outcome(NewOptionShort(G, s), "NewOptionShort", {s}, {})
        /\ C12_Outcome(NewOptionLong(G, l), "NewOptionLong", {}, {l})

\* C12: declared names are pairwise distinct per table, and a declaration panics
\* exactly when a name it gives is already registered, registering nothing.
C12_NamesAreUnique == C12_Distinct /\ C12_Registered /\ C12_FaultsExactlyOnTaken

(* an Option was refused the long name of a declared Flag *)
C12_Witness ==
    /\ panicked = "Adding another command line option with same long option"
    /\ Len(declared) = 1
    /\ declared[1].fn = "NewFlag"
    /\ Options = <<>>
    /\ \E s \in ShortNames : \E l \in LongNames :
          s \notin DOMAIN paramsByShort /\ NewOption(G, s, l).panicked # nil

----------------------------------------------------------------------------
(* C13: the first error ends the parse: ArgParse returns it with the Rest *)
(* entries of the tokens before the failing one, and no later token is    *)
(* classified, appended to Rest or delivered.                             *)

C13_Errors == {errUnrecognizedShort, errUnrecognizedLong, errTriedToNegateOptArg,
               errPassedOptargToFlag}

(* the Rest entries of the tokens argv[1] .. argv[k - 1], none after "--" *)
C13_RestBefore(k) ==
    LET idx == SelectSeq([n \in 1..(k - 1) |-> n],
                         LAMBDA n : /\ trace[n] # "optarg"
                                    /\ C3_Shape(At(argv, n))
                                    /\ (OnRestArg = nil
                                           \/ CallFilter(OnRestArg, At(argv, n), FALSE)))
    IN  [n \in 1..Len(idx) |-> [Argument |-> At(argv, idx[n]), AfterDashes |-> FALSE]]

(* after a failed call: i is the index of the failing token *)
C13_Aborted ==
    (Returned /\ err.format # nil) =>
        /\ err.format \in C13_Errors
        /\ i < Len(argv)
        /\ Len(trace) = i
        /\ trace[i] \in {"short", "negated", "long", "clump", "negclump"}
        /\ \A k \in 1..(i - 1) : trace[k] # "terminator"
        /\ rest = C13_RestBefore(i)
        /\ ~expect_optarg

(* the step that raises the error returns, and nothing moves afterwards *)
C13_Step ==
    /\ (err.format = nil /\ err'.format # nil) =>
          /\ pc = "loop" /\ pc' = "idle"
          /\ i' = i
          /\ rest' = rest /\ asked' = asked
          /\ trace' = Append(trace, trace'[Len(trace')])
    /\ (err.format # nil /\ calls' = calls) =>
          /\ err' = err
          /\ UNCHANGED <<heap, delivered, fired, rest, asked, trace, i, pc>>

\* C13: the first error is returned at once with the Rest built so far; no later
\* token is classified, added to Rest or delivered.
C13_FirstErrorAborts == []C13_Aborted /\ [][C13_Step]_vars

(* hello -v --verbose=1 -a hi: the invalid boolean ended the parse before -a *)
C13_Witness ==
    /\ Returned
    /\ argv = <<test, hello, <<"-", "v">>, LongEq(verbose, <<"1">>), <<"-", "a">>, <<"h", "i">>>>
    /\ OnRestArg = nil
    /\ err.format = errPassedOptargToFlag
    /\ rest = <<[Argument |-> hello, AfterDashes |-> FALSE]>>
    /\ heap[1].Count = 1
    /\ heap[2].Count = 0
    /\ trace = <<"rest", "short", "long">>

----------------------------------------------------------------------------
(* C14: --name=value is split at its first "=": the name is the text      *)
(* between "--" and it, the value all that follows.  For an Option the    *)
(* value is delivered at once and nothing is awaited; an unregistered     *)
(* name fails with the unrecognized-long-option error naming it.          *)

C14_HasEquals(t) ==
    Len(t) >= 3 /\ t[1] = "-" /\ t[2] = "-" /\ \E k \in 3..Len(t) : t[k] = "="
(* the position of the first "=" of t, as a TLA+ index *)
C14_First(t) == CHOOSE k \in 3..Len(t) : t[k] = "=" /\ \A m \in 3..(k - 1) : t[m] # "="
C14_Name(t) == SubSeq(t, 3, C14_First(t) - 1)
C14_Value(t) == SubSeq(t, C14_First(t) + 1, Len(t))

C14_Token ==
    \A t \in ArgvTokens :
        (Classifying(t) /\ C14_HasEquals(t)) =>
            IF LongOf(C14_Name(t)) \in OptionHandles
            THEN /\ delivered' = Append(delivered,
                                        Delivery(LongOf(C14_Name(t)), FALSE, TRUE, C14_Value(t)))
                 /\ heap'[LongOf(C14_Name(t))].OptArg = C14_Value(t)
                 /\ heap'[LongOf(C14_Name(t))].OptArgs
                        = Append(heap[LongOf(C14_Name(t))].OptArgs, C14_Value(t))
                 /\ ~expect_optarg'
                 /\ pc' = "loop" /\ err' = NoError
                 /\ rest' = rest
            ELSE IF C14_Name(t) \notin DOMAIN paramsByLong
            THEN /\ Fails(errUnrecognizedLong, C14_Name(t))
                 /\ heap' = heap /\ delivered' = delivered
            ELSE LongOf(C14_Name(t)) \in FlagHandles

(* the token after a --name=value is never taken as a value *)
C14_NextClassified ==
    \A k \in 1..(Len(trace) - 1) :
        (trace[k] = "long" /\ C14_HasEquals(At(argv, k))) => trace[k + 1] # "optarg"

\* C14: --name=value splits at the first "="; an Option gets the value at once and
\* awaits nothing; an unregistered name fails, named in the error.
C14_SplitAtFirstEquals == []C14_NextClassified /\ [][C14_Token]_vars

(* --file=a=b -v: file got a=b, and -v was classified as a flag *)
C14_Witness ==
    /\ Returned /\ err.format = nil
    /\ argv = <<test, LongEq(file, <<"a", "=", "b">>), <<"-", "v">>>>
    /\ heap[3].OptArgs = <<<<"a", "=", "b">>>>
    /\ heap[1].Count = 1
    /\ trace = <<"long", "short">>

----------------------------------------------------------------------------
(* C15: when argv ends while an Option awaits its value, ArgParse returns *)
(* nil and the Option gets no delivery.                                   *)

(* the call returned with an option still waiting *)
C15_LeftWaiting == Returned /\ expect_optarg

\* C15 as stated: the Option left waiting is exactly as it was before the parse
\* and its Action was not invoked.
C15_WaitingOptionAsBeforeParse ==
    (calls = 1 /\ C15_LeftWaiting) =>
        /\ err = NoError
        /\ heap[waiting_opt] = TestRegistry.heap[waiting_opt]
        /\ ArgsTo(waiting_opt) = <<>>
        /\ \A k \in 1..Len(fired) : fired[k].h # waiting_opt

(* as amended: the last token asks for a value and delivers nothing to the *)
(* option, and the return that follows delivers nothing either             *)
C15_LastToken ==
    \A t \in ArgvTokens : \A h \in OptionHandles :
        (Classifying(t) /\ C11_Asks(t, h) /\ i = Len(argv) - 1) =>
            /\ heap'[h] = heap[h]
            /\ ArgsTo(h)' = ArgsTo(h)
            /\ \A k \in (Len(fired) + 1)..Len(fired') : fired'[k].h # h
            /\ pc' = "loop" /\ expect_optarg' /\ waiting_opt' = h

C15_Return ==
    (pc = "loop" /\ ~(i < Len(argv)) /\ expect_optarg) =>
        /\ pc' = "idle"
        /\ err' = NoError
        /\ heap' = heap /\ delivered' = delivered /\ fired' = fired
        /\ rest' = rest

C15_Waiting ==
    C15_LeftWaiting =>
        /\ err = NoError
        /\ i = Len(argv)
        /\ trace[Len(trace)] \in {"short", "long", "clump"}
        /\ waiting_opt \in OptionHandles
        /\ heap[waiting_opt].OptArgs = ArgsTo(waiting_opt)

\* C15, amended: when argv ends while an Option awaits its value, nil is returned
\* and the Option is as it was when the last token was classified: the values
\* earlier tokens delivered to it stay, no further one is added.
C15_NoDeliveryForLastMatch == []C15_Waiting /\ [][C15_LastToken /\ C15_Return]_vars

(* --file=hi -vf: f has the value of the first token and waits after the last *)
C15_Witness ==
    /\ C15_LeftWaiting
    /\ argv = <<test, LongEq(file, <<"h", "i">>), <<"-", "v", "f">>>>
    /\ err = NoError
    /\ waiting_opt = 3
    /\ heap[3].OptArgs = <<<<"h", "i">>>>
    /\ heap[3].Passed
    /\ heap[1].Count = 1

----------------------------------------------------------------------------
(* C16: every ArgParse call starts with an empty Rest and no option       *)
(* awaiting a value, whatever the previous call ended with; the objects   *)
(* and the lookup tables are what a call finds as the previous one left   *)
(* them.                                                                   *)

C16_Entry ==
    (pc = "idle" /\ pc' = "loop") =>
        /\ rest' = <<>>
        /\ ~expect_optarg' /\ waiting_opt' = 0
        /\ err' = NoError
        /\ i' = 1
        /\ heap' = heap
        /\ paramsByShort' = paramsByShort /\ paramsByLong' = paramsByLong

(* the first token of a call is classified, never taken as a value, and   *)
(* the outcome of a call is that of its own argv                          *)
C16_Fresh ==
    /\ (pc = "loop" /\ i = 1) => (~expect_optarg /\ rest = <<>> /\ err = NoError)
    /\ Len(trace) >= 1 => trace[1] # "optarg"
    /\ (Returned /\ err.format = nil) => (Len(trace) = Len(argv) - 1 /\ rest = C3_Expected)
    /\ (Returned /\ err.format # nil) => rest = C13_RestBefore(i)

(* the first token of a second call does to the objects what it does in a *)
(* first call: a Flag token one delivery, an Option token none            *)
C16_FirstToken ==
    (pc = "loop" /\ i = 1 /\ calls = 2) =>
        /\ Classifying(<<"-", "v">>) =>
              delivered' = Append(delivered, Delivery(1, TRUE, TRUE, <<>>))
        /\ Classifying(<<"h", "i">>) =>
              (delivered' = delivered
                  /\ rest' = <<[Argument |-> <<"h", "i">>, AfterDashes |-> FALSE]>>)
        /\ Classifying(<<"-", "f">>) => (delivered' = delivered /\ expect_optarg')

\* C16: a call starts idle with an empty Rest, so nothing of the previous call but
\* the objects' values and the tables reaches it.
C16_NoParserStateAcrossCalls == []C16_Fresh /\ [][C16_Entry /\ C16_FirstToken]_vars

(* second call, hi -f, after a call that gave nothing to f: hi went to Rest *)
C16_Witness ==
    /\ Returned /\ calls = 2
    /\ argv = <<test, <<"h", "i">>, <<"-", "f">>>>
    /\ expect_optarg
    /\ heap[3].OptArgs = <<>>
    /\ heap[1].Count = 1
    /\ rest = <<[Argument |-> <<"h", "i">>, AfterDashes |-> FALSE]>>

----------------------------------------------------------------------------
(* C17: resetParams empties both tables, both lists and OnRestArg: every  *)
(* lookup is then not-found, so an option token fails as unrecognized; a  *)
(* name used before may be declared again; and no parse afterwards        *)
(* changes an object declared before the reset.                           *)

(* what resetParams makes of the present state *)
C17_Clears ==
    LET g == resetParams(G)
    IN  /\ DOMAIN g.paramsByShort = {} /\ DOMAIN g.paramsByLong = {}
        /\ g.Flags = <<>> /\ g.Options = <<>>
        /\ g.OnRestArg = nil
        /\ g.heap = heap
        /\ panicked = nil =>
              \A s \in ShortNames : \A l \in LongNames :
                  /\ NewFlag(g, s, l).panicked = nil
                  /\ NewOption(g, s, l).panicked = nil
                  /\ NewFlagShort(g, s).panicked = nil
                  /\ NewOptionLong(g, l).panicked = nil

(* the objects that no declaration since the last reset returned *)
C17_Old == {h \in Handles : \A k \in 1..Len(declared) : declared[k].ret # h}

C17_OldUnreachable ==
    /\ \A c \in DOMAIN paramsByShort : paramsByShort[c] \notin C17_Old
    /\ \A n \in DOMAIN paramsByLong : paramsByLong[n] \notin C17_Old
    /\ (pc = "loop" /\ expect_optarg) => waiting_opt \notin C17_Old

C17_OptionShaped(t) ==
    \/ Len(t) = 2 /\ t[1] \in {"-", "+"} /\ t # <<"-", "-">>
    \/ Len(t) >= 3 /\ t[1] = "-" /\ t[2] = "-" /\ IndexByte(t, "=") < 0

C17_Step ==
    /\ (declared # <<>> /\ declared' = <<>>) =>
          /\ DOMAIN paramsByShort' = {} /\ DOMAIN paramsByLong' = {}
          /\ Flags' = <<>> /\ Options' = <<>>
          /\ OnRestArg' = nil
          /\ heap' = heap
    /\ \A h \in C17_Old : heap'[h] = heap[h]
    /\ \A t \in ArgvTokens :
          (Classifying(t) /\ C17_OptionShaped(t)
              /\ DOMAIN paramsByShort = {} /\ DOMAIN paramsByLong = {}) =>
              /\ pc' = "idle"
              /\ err'.format = IF t[2] = "-" THEN errUnrecognizedLong ELSE errUnrecognizedShort
              /\ heap' = heap

\* C17: a reset empties tables, lists and filter; afterwards lookups fail, old
\* names are free again, and objects declared before it are never changed.
C17_ResetIsolatesRuns == [](C17_Clears /\ C17_OldUnreachable) /\ [][C17_Step]_vars

(* v declared, parsed, reset, declared again and parsed: each object once *)
C17_Witness ==
    /\ Returned /\ calls = 2
    /\ Len(heap) = 2
    /\ Len(declared) = 1 /\ declared[1].ret = 2
    /\ heap[1].ShortOpt = "v" /\ heap[2].ShortOpt = "v"
    /\ ~heap[1].takesArg /\ ~heap[2].takesArg
    /\ heap[1].Count = 1 /\ heap[2].Count = 1

----------------------------------------------------------------------------
(* C18: OnRestArg, when set, is called once for each positional token in  *)
(* input order with the token and whether it follows the terminator, and  *)
(* the token is appended to Rest exactly when the answer is true; with no *)
(* OnRestArg every positional token is appended.  It is not called for    *)
(* flags, options, option values, the terminator or empty tokens.         *)

(* the tokens handled so far, by index *)
C18_Handled == [k \in 1..Len(trace) |-> k]

C18_Ask(k) ==
    [arg |-> At(argv, k), dash |-> k > C3_Terminator,
     kept |-> CallFilter(OnRestArg, At(argv, k), k > C3_Terminator)]
C18_Entry(k) == [Argument |-> At(argv, k), AfterDashes |-> k > C3_Terminator]

(* the calls and the entries expected for the tokens selected by Sel *)
C18_Calls(Sel(_)) ==
    LET idx == SelectSeq(C18_Handled, Sel)
    IN  [n \in 1..Len(idx) |-> C18_Ask(idx[n])]
C18_Kept(Sel(_)) ==
    LET idx == SelectSeq(C18_Handled,
                         LAMBDA k : Sel(k) /\ (OnRestArg = nil \/ C18_Ask(k).kept))
    IN  [n \in 1..Len(idx) |-> C18_Entry(idx[n])]

(* the calls are those for the positional tokens, the entries those kept *)
C18_Exact ==
    (pc = "loop" \/ Returned) =>
        /\ OnRestArg # nil => asked = C18_Calls(C3_Positional)
        /\ OnRestArg = nil => asked = <<>>
        /\ rest = C18_Kept(C3_Positional)

\* C18 as stated: OnRestArg is called once per positional token, in order, the
\* token is kept exactly when it answers true, and it is never called for an
\* empty token.
C18_NeverCalledForEmpty ==
    /\ C18_Exact
    /\ \A k \in 1..Len(asked) : asked[k].arg # <<>>

\* C18, amended: OnRestArg is called once per positional token, in order, and the
\* token is kept exactly when it answers true; it is called for an empty token
\* only after the terminator, where every token is positional.
C18_CalledForPositionals ==
    /\ C18_Exact
    /\ \A k \in 1..Len(asked) : asked[k].arg = <<>> => asked[k].dash
    /\ \A k \in 1..Len(trace) :
          (k < C3_Terminator /\ At(argv, k) = <<>> /\ trace[k] # "optarg") =>
              ~C3_Positional(k)

(* hello -- -v "" -- --file=hi +v: asked about hello and the five tokens  *)
(* after the terminator, the empty one among them                         *)
C18_Witness ==
    /\ Returned
    /\ OnRestArg = "NoStdin"
    /\ argv = <<test, hello, <<"-", "-">>, <<"-", "v">>, <<>>, <<"-", "-">>,
                LongEq(file, <<"h", "i">>), <<"+", "v">>>>
    /\ Len(asked) = 6
    /\ asked[1] = [arg |-> hello, dash |-> FALSE, kept |-> TRUE]
    /\ asked[3] = [arg |-> <<>>, dash |-> TRUE, kept |-> TRUE]
    /\ Len(rest) = 6
    /\ delivered = <<>>

----------------------------------------------------------------------------
(* C19: a failing parse undoes nothing: when a clump fails at a character, *)
(* the Flags of the characters before it have had their delivery (count,  *)
(* state, callback), and what earlier tokens delivered stays.             *)

(* the clump t fails at its character t[j] *)
C19_FailsAt(t, j) ==
    /\ IsClump(t, "-") \/ IsClump(t, "+")
    /\ FlagsBefore(t, j)
    /\ \/ t[j] \notin DOMAIN paramsByShort
       \/ t[1] = "+" /\ ShortOf(t[j]) \in OptionHandles

C19_Token ==
    /\ IsPrefix(delivered, delivered')
    /\ IsPrefix(fired, fired')
    /\ \A t \in ArgvTokens : \A j \in 2..Len(t) :
          (Classifying(t) /\ C19_FailsAt(t, j)) =>
              LET done == SubSeq(t, 1, j - 1)
              IN  /\ pc' = "idle"
                  /\ err'.format \in {errUnrecognizedShort, errTriedToNegateOptArg}
                  /\ delivered' = delivered \o C6_Deliveries(done)
                  /\ fired' = fired \o C6_Callbacks(done)
                  /\ \A h \in FlagHandles :
                        /\ heap'[h].Count = heap[h].Count
                              + (IF t[1] = "-" THEN 1 ELSE -1) * C6_Occurrences(done, h)
                        /\ C6_Occurrences(done, h) > 0 => heap'[h].Passed = (t[1] = "-")
                  /\ \A h \in OptionHandles : heap'[h] = heap[h]

(* after a failed call every object holds what was delivered to it *)
C19_Kept ==
    (Returned /\ err.format # nil) =>
        /\ \A h \in FlagHandles :
              /\ heap[h].Count = Times(ValuesTo(h), TRUE) - Times(ValuesTo(h), FALSE)
              /\ ValuesTo(h) # <<>> => heap[h].Passed = ValuesTo(h)[Len(ValuesTo(h))]
        /\ \A h \in OptionHandles : heap[h].OptArgs = ArgsTo(h)
        /\ Len(fired) = Len(delivered)

\* C19: a clump that fails at a character has already delivered to the Flags of
\* the characters before it, and a failed parse keeps every delivery it made.
C19_NoRollback == []C19_Kept /\ [][C19_Token]_vars

(* -av then +vza: a and v were raised, v lowered again before z failed *)
C19_Witness ==
    /\ Returned
    /\ argv = <<test, <<"-", "a", "v">>, <<"+", "v", "z", "a">>>>
    /\ err.format = errUnrecognizedShort
    /\ ValuesTo(1) = <<TRUE, FALSE>>
    /\ ValuesTo(2) = <<TRUE>>
    /\ heap[1].Count = 0 /\ ~heap[1].Passed
    /\ heap[2].Count = 1 /\ heap[2].Passed
    /\ Len(fired) = 3

----------------------------------------------------------------------------
(* C20: the elements of Flags and Options are the values copied at the    *)
(* declarations since the last reset; ArgParse changes none of them, so   *)
(* they keep Count 0, Passed false and no OptArg whatever is delivered to *)
(* the objects behind the handles.                                        *)

C20_IsFlag(d) == d.fn \in {"NewFlag", "NewFlagShort", "NewFlagLong"}
C20_IsOption(d) == d.fn \in {"NewOption", "NewOptionShort", "NewOptionLong"}

C20_Copies ==
    LET fs == SelectSeq(declared, C20_IsFlag)
        os == SelectSeq(declared, C20_IsOption)
    IN  /\ Flags = [k \in 1..Len(fs) |-> FlagValue(fs[k].s, fs[k].l)]
        /\ Options = [k \in 1..Len(os) |-> OptionValue(os[k].s, os[k].l)]

C20_Untouched ==
    /\ \A k \in 1..Len(Flags) : Flags[k].Count = 0 /\ ~Flags[k].Passed
    /\ \A k \in 1..Len(Options) :
          Options[k].OptArg = <<>> /\ Options[k].OptArgs = <<>> /\ ~Options[k].Passed

C20_Parse ==
    (pc = "loop" \/ pc' = "loop") => (Flags' = Flags /\ Options' = Options)

\* C20: Flags and Options hold the values copied at declaration; no parse changes
\* them, whatever it delivers to the handles.
C20_ListsAreCopies == [](C20_Copies /\ C20_Untouched) /\ [][C20_Parse]_vars

(* a Flag and an Option took deliveries; their list elements show none *)
C20_Witness ==
    /\ Returned
    /\ Len(Flags) = 1 /\ Len(Options) = 1
    /\ \E m, n \in 1..Len(declared) :
          /\ C20_IsFlag(declared[m]) /\ C20_IsOption(declared[n])
          /\ heap[declared[m].ret].Count = 1 /\ heap[declared[m].ret].Passed
          /\ heap[declared[n].ret].OptArgs = <<<<"h", "i">>>>
    /\ Flags[1].Count = 0 /\ ~Flags[1].Passed
    /\ Options[1].OptArgs = <<>> /\ ~Options[1].Passed

====
